---- MODULE Spec2Model ----
(***************************************************************************)
(* Model of internal/operator/operator.go of the contour operator:         *)
(*   - New: the three bootstrap phases (manager, controller, discovery),   *)
(*   - Operator.Start: the goroutine that runs manager.Start and the       *)
(*     caller's select over ctx.Done() and errChan,                        *)
(*   - GatewayAPIResources: the static resource list.                      *)
(* The collaborators behind the calls (controller-runtime's manager, the   *)
(* contour controller, the discovery REST mapper) are the environment:     *)
(* each call returns nil or any error, at any time.                        *)
(***************************************************************************)
EXTENDS Naturals, Sequences, FiniteSets

\* ---------------------------------------------------------------- bounds

\* How many times the caller may call Operator.Start on the same Operator.
MaxStarts == 2

\* How many times GatewayAPIResources may be called.
MaxLists == 2

\* ---------------------------------------------------------------- values

\* A Go error is the chain of its messages, outermost first; nil is empty.
NIL == <<>>

\* The errors the collaborators may return.
BaseErrors == {<<"e1">>, <<"e2">>}

\* What a collaborator call returns: nil or an error.
Outcomes == {NIL} \cup BaseErrors

\* A nil pointer (*Operator, manager).
NULL == [nil |-> TRUE]

\* fmt.Errorf("<msg>: %w", err): one more layer around err.
Wrap(msg, err) == <<msg>> \o err

\* errors.Unwrap.
Unwrap(err) == IF Len(err) > 1 THEN Tail(err) ELSE NIL

operatorName == "contour_operator"

\* The operator configurations New is called with.
Configs ==
    { [LeaderElection |-> le, LeaderElectionID |-> "0d879e31.projectcontour.io",
       MetricsBindAddress |-> ":8080", ContourImage |-> "contour",
       EnvoyImage |-> "envoy"] : le \in BOOLEAN }

\* The object types always read live, never from the cache.
nonCached == {"Contour", "GatewayClass", "Gateway", "CustomResourceDefinition"}

mgrOpts(cfg) ==
    [Scheme |-> "OperatorScheme",
     LeaderElection |-> cfg.LeaderElection,
     LeaderElectionID |-> cfg.LeaderElectionID,
     MetricsBindAddress |-> cfg.MetricsBindAddress,
     ClientDisableCacheFor |-> nonCached]

\* The group and version of gatewayv1alpha1.GroupVersion.
GatewayGroup == "networking.x-k8s.io"
GatewayVersion == "v1alpha1"

GVR(resource) ==
    [Group |-> GatewayGroup, Version |-> GatewayVersion, Resource |-> resource]

\* Mutant: the list also names the TCP and UDP routes.
GatewayAPIResources_AllRoutes ==
    << GVR("gatewayclasses"), GVR("gateways"), GVR("httproutes"), GVR("tlsroutes"),
       GVR("tcproutes"), GVR("udproutes") >>

\* GatewayAPIResources for Operator: a fresh slice on every call.
GatewayAPIResources ==
    << GVR("gatewayclasses"), GVR("gateways"), GVR("httproutes"), GVR("tlsroutes") >>

\* ----------------------------------------------------------------- state

VARIABLES
    opCfg,          \* the opCfg argument of New
    newPc,          \* New: index of the phase to attempt next; Returned when done
    calls,          \* the collaborator calls New has made and what each returned
    mgr,            \* the manager NewManager built (NULL before), with its controllers
    newOp,          \* the *Operator New returned (NULL: nil)
    newErr,         \* the error New returned
    ctxDone,        \* whether the context given to Start is cancelled
    nStarts,        \* how many times Start was called; the current call is nStarts
    callerPc,       \* the caller of Start: "idle" or blocked in "select"
    gpc,            \* per call: where its goroutine is
    mgrRet,         \* per call: what manager.Start returned
    exitCancelled,  \* per call: whether ctx was cancelled when manager.Start returned
    branch,         \* per call: the select branch that ended Start
    ret,            \* per call: what Start returned
    calledCancelled,\* per call: whether ctx was cancelled when Start was called
    mgrCtx,         \* per call: the context handed to manager.Start ("none" before)
    invoked,        \* per call: how many times manager.Start was invoked
    offers,         \* per call: how many values the goroutine has offered on errChan
    receipts,       \* per call: how many values the caller has received from errChan
    panicked,       \* the process died of a nil dereference
    catalog         \* each call of GatewayAPIResources: its result, and where the
                    \* caller of Start was at the time

vars == << opCfg, newPc, calls, mgr, newOp, newErr, ctxDone, nStarts, callerPc,
           gpc, mgrRet, exitCancelled, branch, ret, calledCancelled, mgrCtx,
           invoked, offers, receipts, panicked, catalog >>

bootVars == << opCfg, newPc, calls, mgr, newOp, newErr >>
runVars == << nStarts, callerPc, gpc, mgrRet, exitCancelled, branch, ret,
             calledCancelled, mgrCtx, invoked, offers, receipts >>

Runs == 1..MaxStarts

\* ------------------------------------------------------------------- New

\* Mutant: discovery is attempted before the controller is registered.
PhaseOrder_DiscoveryFirst ==
    << "NewManager", "NewDiscoveryRESTMapper", "controller.New" >>

\* The phases of New in the order the code attempts them.
PhaseOrder == << "NewManager", "controller.New", "NewDiscoveryRESTMapper" >>

Returned == Len(PhaseOrder) + 1

\* Mutant: a discovery failure is logged and New goes on to return no error.
FailureError_Swallowed(phase, err) ==
    CASE phase = "NewManager" -> Wrap("failed to create manager", err)
      [] phase = "controller.New" -> Wrap("failed to create contour controller", err)
      [] phase = "NewDiscoveryRESTMapper" -> NIL

\* What New returns when phase fails with err.
FailureError(phase, err) ==
    CASE phase = "NewManager" -> Wrap("failed to create manager", err)
      [] phase = "controller.New" -> Wrap("failed to create contour controller", err)
      [] phase = "NewDiscoveryRESTMapper" -> err

\* The Operator New builds once every phase succeeded.
NewOperator ==
    [manager |-> "mgr",
     client |-> [Client |-> "mgr.GetClient", RESTMapper |-> "restMapper"],
     log |-> operatorName,
     config |-> opCfg]

\* Mutant: a discovery failure returns the Operator built so far with the error.
FailureOperator_Partial(phase) ==
    IF phase = "NewDiscoveryRESTMapper" THEN NewOperator ELSE NULL

\* The *Operator New returns together with a non-nil error.
FailureOperator(phase) == NULL

\* What a successful phase does to the manager.
PhaseEffect(phase) ==
    CASE phase = "NewManager" -> [opts |-> mgrOpts(opCfg), controllers |-> {}]
      [] phase = "controller.New" ->
             [mgr EXCEPT !.controllers =
                 @ \cup {[name |-> "contour", ContourImage |-> opCfg.ContourImage,
                          EnvoyImage |-> opCfg.EnvoyImage]}]
      [] phase = "NewDiscoveryRESTMapper" -> mgr

\* One phase of New: the collaborator is called and returns err; on an error
\* New returns at once, after the last phase it returns the Operator.
Phase(phase) ==
    /\ ~panicked
    /\ newPc < Returned
    /\ PhaseOrder[newPc] = phase
    /\ \E err \in Outcomes :
          /\ calls' = Append(calls, [call |-> phase, err |-> err])
          /\ IF err # NIL
             THEN /\ newPc' = Returned
                  /\ newOp' = FailureOperator(phase)
                  /\ newErr' = FailureError(phase, err)
                  /\ mgr' = mgr
             ELSE /\ mgr' = PhaseEffect(phase)
                  /\ newPc' = IF newPc = Len(PhaseOrder) THEN Returned ELSE newPc + 1
                  /\ newOp' = IF newPc = Len(PhaseOrder) THEN NewOperator ELSE newOp
                  /\ newErr' = newErr
    /\ UNCHANGED << opCfg, ctxDone, panicked, catalog >>
    /\ UNCHANGED runVars

\* ----------------------------------------------------------------- Start

\* The external cancellation of ctx.
Cancel ==
    /\ ~panicked
    /\ ~ctxDone
    /\ ctxDone' = TRUE
    /\ UNCHANGED << panicked, catalog >>
    /\ UNCHANGED bootVars
    /\ UNCHANGED runVars

\* Mutant: Start looks at ctx first and returns nil at once when it is cancelled.
StartCall_PreCheck ==
    /\ ~panicked
    /\ newPc = Returned
    /\ callerPc = "idle"
    /\ nStarts < MaxStarts
    /\ nStarts' = nStarts + 1
    /\ calledCancelled' = [calledCancelled EXCEPT ![nStarts + 1] = ctxDone]
    /\ IF ctxDone
       THEN /\ branch' = [branch EXCEPT ![nStarts + 1] = "ctx"]
            /\ UNCHANGED << gpc, callerPc >>
       ELSE /\ gpc' = [gpc EXCEPT ![nStarts + 1] = "spawned"]
            /\ callerPc' = "select"
            /\ branch' = branch
    /\ UNCHANGED << mgrRet, exitCancelled, ret, mgrCtx, invoked, offers,
                    receipts, ctxDone, panicked, catalog >>
    /\ UNCHANGED bootVars

\* Mutant: Start first registers the Gateway API controllers with the manager.
StartCall_GatewayControllers ==
    /\ ~panicked
    /\ newPc = Returned
    /\ callerPc = "idle"
    /\ nStarts < MaxStarts
    /\ nStarts' = nStarts + 1
    /\ gpc' = [gpc EXCEPT ![nStarts + 1] = "spawned"]
    /\ calledCancelled' = [calledCancelled EXCEPT ![nStarts + 1] = ctxDone]
    /\ callerPc' = "select"
    /\ mgr' = IF mgr = NULL THEN mgr
              ELSE [mgr EXCEPT !.controllers = @ \cup {[name |-> "gateway"]}]
    /\ UNCHANGED << mgrRet, exitCancelled, branch, ret, mgrCtx, invoked, offers,
                    receipts, ctxDone, panicked, catalog >>
    /\ UNCHANGED << opCfg, newPc, calls, newOp, newErr >>

\* Mutant: Start spawns the goroutine and returns nil without waiting.
StartCall_NoBlock ==
    /\ ~panicked
    /\ newPc = Returned
    /\ callerPc = "idle"
    /\ nStarts < MaxStarts
    /\ nStarts' = nStarts + 1
    /\ gpc' = [gpc EXCEPT ![nStarts + 1] = "spawned"]
    /\ calledCancelled' = [calledCancelled EXCEPT ![nStarts + 1] = ctxDone]
    /\ branch' = [branch EXCEPT ![nStarts + 1] = "ctx"]
    /\ UNCHANGED << callerPc, mgrRet, exitCancelled, ret, mgrCtx, invoked, offers,
                    receipts, ctxDone, panicked, catalog >>
    /\ UNCHANGED bootVars

\* Start is called: errChan is made, the goroutine is spawned, and the caller
\* reaches the select.  Nothing in Start looks at o or at ctx before that.
StartCall ==
    /\ ~panicked
    /\ newPc = Returned
    /\ callerPc = "idle"
    /\ nStarts < MaxStarts
    /\ nStarts' = nStarts + 1
    /\ gpc' = [gpc EXCEPT ![nStarts + 1] = "spawned"]
    /\ calledCancelled' = [calledCancelled EXCEPT ![nStarts + 1] = ctxDone]
    /\ callerPc' = "select"
    /\ UNCHANGED << mgrRet, exitCancelled, branch, ret, mgrCtx, invoked, offers,
                    receipts, ctxDone, panicked, catalog >>
    /\ UNCHANGED bootVars

\* Mutant: the goroutine hands a context of its own to manager.Start.
ManagerCtx_Background == "background"

\* The context the goroutine hands to manager.Start: the ctx of Start itself.
ManagerCtx == "ctx"

\* Whether context c is cancelled; a context other than ctx never is.
Cancelled(c) == c = "ctx" /\ ctxDone

\* The goroutine evaluates o.manager.Start(ctx): a nil o panics, otherwise the
\* manager's event loop is running.
GoInvoke(r) ==
    /\ ~panicked
    /\ gpc[r] = "spawned"
    /\ IF newOp = NULL
       THEN /\ panicked' = TRUE
            /\ UNCHANGED << gpc, mgrCtx, invoked >>
       ELSE /\ panicked' = panicked
            /\ gpc' = [gpc EXCEPT ![r] = "inMgr"]
            /\ mgrCtx' = [mgrCtx EXCEPT ![r] = ManagerCtx]
            /\ invoked' = [invoked EXCEPT ![r] = @ + 1]
    /\ UNCHANGED << nStarts, callerPc, mgrRet, exitCancelled, branch, ret,
                    calledCancelled, offers, receipts, ctxDone, catalog >>
    /\ UNCHANGED bootVars

\* Mutant: the goroutine loops, running manager.Start again after each delivery.
MgrExit_Loop(r) ==
    /\ ~panicked
    /\ gpc[r] \in {"inMgr", "done"}
    /\ \E v \in Outcomes :
          /\ mgrRet' = [mgrRet EXCEPT ![r] = v]
          /\ exitCancelled' = [exitCancelled EXCEPT ![r] = ctxDone]
          /\ gpc' = [gpc EXCEPT ![r] = "sending"]
    /\ offers' = [offers EXCEPT ![r] = @ + 1]
    /\ UNCHANGED << nStarts, callerPc, branch, ret, calledCancelled, mgrCtx, invoked,
                    receipts, ctxDone, panicked, catalog >>
    /\ UNCHANGED bootVars

\* manager.Start returns v; the goroutine now offers v on errChan.
MgrExit(r) ==
    /\ ~panicked
    /\ gpc[r] = "inMgr"
    /\ \E v \in Outcomes :
          /\ mgrRet' = [mgrRet EXCEPT ![r] = v]
          /\ exitCancelled' = [exitCancelled EXCEPT ![r] = ctxDone]
          /\ gpc' = [gpc EXCEPT ![r] = "sending"]
    /\ offers' = [offers EXCEPT ![r] = @ + 1]
    /\ UNCHANGED << nStarts, callerPc, branch, ret, calledCancelled, mgrCtx, invoked,
                    receipts, ctxDone, panicked, catalog >>
    /\ UNCHANGED bootVars

\* Mutant: the select has a default branch that returns nil.
CtxBranchReady_Default == TRUE

\* Mutant: after the cancellation Start waits for manager.Start to return.
CtxBranchReady_AfterExit ==
    ctxDone /\ nStarts > 0 /\ gpc[nStarts] \in {"sending", "done"}

\* Mutant: the select has no case for the cancellation.
CtxBranchReady_Missing == FALSE

\* case <-ctx.Done() is ready.
CtxBranchReady == ctxDone

\* Mutant: the cancellation is looked at first, the channel only without it.
RecvBranchReady_CtxFirst == nStarts > 0 /\ gpc[nStarts] = "sending" /\ ~ctxDone

\* Mutant: the receive is ready without a send, as on a closed channel or a timer.
RecvBranchReady_Closed == nStarts > 0

\* case err := <-errChan is ready: errChan has no buffer, so exactly when the
\* goroutine of this call is blocked in its send.
RecvBranchReady == nStarts > 0 /\ gpc[nStarts] = "sending"

\* Mutant: return ctx.Err()
CtxBranchResult_CtxErr == <<"context canceled">>

\* return nil
CtxBranchResult == NIL

\* Mutant: the error of the manager is wrapped.
RecvBranchResult_Wrapped(v) == IF v = NIL THEN NIL ELSE Wrap("manager exited", v)

\* return err
RecvBranchResult(v) == v

\* The select takes case <-ctx.Done().
SelectCtxDone ==
    /\ ~panicked
    /\ callerPc = "select"
    /\ CtxBranchReady
    /\ ret' = [ret EXCEPT ![nStarts] = CtxBranchResult]
    /\ branch' = [branch EXCEPT ![nStarts] = "ctx"]
    /\ callerPc' = "idle"
    /\ UNCHANGED << nStarts, gpc, mgrRet, exitCancelled, calledCancelled, mgrCtx,
                    invoked, offers, receipts, ctxDone, panicked, catalog >>
    /\ UNCHANGED bootVars

\* The select takes case err := <-errChan: the send and the receive meet, the
\* goroutine ends and Start returns the value.
SelectRecv ==
    /\ ~panicked
    /\ callerPc = "select"
    /\ RecvBranchReady
    /\ ret' = [ret EXCEPT ![nStarts] = RecvBranchResult(mgrRet[nStarts])]
    /\ branch' = [branch EXCEPT ![nStarts] = "chan"]
    /\ gpc' = [gpc EXCEPT ![nStarts] = "done"]
    /\ receipts' = [receipts EXCEPT ![nStarts] = @ + 1]
    /\ callerPc' = "idle"
    /\ UNCHANGED << nStarts, mgrRet, exitCancelled, calledCancelled, mgrCtx, invoked,
                    offers, ctxDone, panicked, catalog >>
    /\ UNCHANGED bootVars

\* --------------------------------------------------- GatewayAPIResources

\* A call of GatewayAPIResources, at any time.
ListResources ==
    /\ ~panicked
    /\ Len(catalog) < MaxLists
    /\ catalog' = Append(catalog, [list |-> GatewayAPIResources, during |-> callerPc])
    /\ UNCHANGED << ctxDone, panicked >>
    /\ UNCHANGED bootVars
    /\ UNCHANGED runVars

\* --------------------------------------------------------- specification

Init ==
    /\ opCfg \in Configs
    /\ newPc = 1
    /\ calls = << >>
    /\ mgr = NULL
    /\ newOp = NULL
    /\ newErr = NIL
    /\ ctxDone = FALSE
    /\ nStarts = 0
    /\ callerPc = "idle"
    /\ gpc = [r \in Runs |-> "none"]
    /\ mgrRet = [r \in Runs |-> NIL]
    /\ exitCancelled = [r \in Runs |-> FALSE]
    /\ branch = [r \in Runs |-> "none"]
    /\ ret = [r \in Runs |-> NIL]
    /\ calledCancelled = [r \in Runs |-> FALSE]
    /\ mgrCtx = [r \in Runs |-> "none"]
    /\ invoked = [r \in Runs |-> 0]
    /\ offers = [r \in Runs |-> 0]
    /\ receipts = [r \in Runs |-> 0]
    /\ panicked = FALSE
    /\ catalog = << >>

Next ==
    \/ Phase("NewManager")
    \/ Phase("controller.New")
    \/ Phase("NewDiscoveryRESTMapper")
    \/ Cancel
    \/ StartCall
    \/ \E r \in Runs : GoInvoke(r)
    \/ \E r \in Runs : MgrExit(r)
    \/ SelectCtxDone
    \/ SelectRecv
    \/ ListResources

Spec == Init /\ [][Next]_vars

\* The Go scheduler runs every runnable goroutine: the caller and the
\* goroutines of Start take their enabled steps.  Nothing obliges the
\* environment to cancel ctx, manager.Start to return, or the caller to call
\* Start again.
FairSpec ==
    /\ Spec
    /\ WF_vars(SelectCtxDone)
    /\ WF_vars(SelectRecv)
    /\ \A r \in Runs : WF_vars(GoInvoke(r))

\* ------------------------------------------------------ claim vocabulary

\* Call r of Start has returned.
HasReturned(r) == branch[r] # "none"

\* manager.Start of call r has returned: the runtime produced its completion value.
Produced(r) == gpc[r] \in {"sending", "done"}

\* ctx was cancelled before the runtime of call r produced a completion value.
CancelledFirst(r) == ctxDone /\ (Produced(r) => exitCancelled[r])

\* The runtime of call r exited with an error before ctx was cancelled.
ErrorFirst(r) == Produced(r) /\ mgrRet[r] # NIL /\ ~exitCancelled[r]

\* The select of the current call has both branches ready.
BothReady == callerPc = "select" /\ ctxDone /\ gpc[nStarts] = "sending"

\* ------------------------------------------------------------------- C1

\* C1 (as stated): if ctx is cancelled before the runtime has produced a
\* completion value, Start returns nil and no runtime error reaches the caller.
C1_Original ==
    \A r \in Runs : (HasReturned(r) /\ CancelledFirst(r)) => ret[r] = NIL

\* C1 (amended): if ctx is cancelled before the runtime has produced a
\* completion value, Start returns nil whenever its select takes the
\* cancellation branch, and it takes that branch whenever it decides before the
\* runtime has produced a completion value; a select that decides after the
\* runtime produced its value may take the channel branch instead, and Start
\* then returns that value.
C1_CancelFirst ==
    \A r \in Runs :
        (HasReturned(r) /\ CancelledFirst(r)) =>
            /\ branch[r] = "ctx" => ret[r] = NIL
            /\ ~Produced(r) => (branch[r] = "ctx" /\ ret[r] = NIL)
            /\ branch[r] = "chan" =>
                  (gpc[r] = "done" /\ exitCancelled[r] /\ ret[r] = mgrRet[r])

\* Start returned nil on the cancellation branch while manager.Start was still
\* running.
C1_Witness ==
    \E r \in Runs :
        HasReturned(r) /\ CancelledFirst(r) /\ gpc[r] = "inMgr" /\ ret[r] = NIL

\* ------------------------------------------------------------------- C2

\* C2 (as stated): if manager.Start exits with an error before ctx is
\* cancelled, Start returns exactly that error, never nil.
C2_Original ==
    \A r \in Runs : (HasReturned(r) /\ ErrorFirst(r)) => ret[r] = mgrRet[r]

\* C2 (amended): if manager.Start exits with an error before ctx is cancelled,
\* Start returns exactly that error (unwrapped, never nil) whenever its select
\* takes the channel branch, and it takes that branch whenever ctx is still not
\* cancelled when it decides; if ctx is cancelled after the error was produced
\* but before Start received it, the select may take the cancellation branch
\* and Start then returns nil.
C2_ErrorFirst ==
    \A r \in Runs :
        (HasReturned(r) /\ ErrorFirst(r)) =>
            /\ branch[r] = "chan" => (ret[r] = mgrRet[r] /\ ret[r] \in BaseErrors)
            /\ ~ctxDone => branch[r] = "chan"
            /\ branch[r] = "ctx" => (ctxDone /\ ret[r] = NIL /\ gpc[r] = "sending")

\* Start returned the runtime's error, and ctx was never cancelled.
C2_Witness ==
    \E r \in Runs :
        /\ HasReturned(r) /\ ErrorFirst(r) /\ ~ctxDone
        /\ ret[r] = mgrRet[r] /\ ret[r] \in BaseErrors

\* ------------------------------------------------------------------- C3

\* C3: when both wait conditions are ready (ctx cancelled, the goroutine
\* offering the completion value), the select has no priority: Start can
\* return nil by the cancellation branch and can return the completion value
\* by the channel branch.
C3_NoPriority ==
    BothReady =>
        /\ ENABLED (SelectCtxDone /\ branch'[nStarts] = "ctx" /\ ret'[nStarts] = NIL)
        /\ ENABLED (SelectRecv /\ branch'[nStarts] = "chan"
                               /\ ret'[nStarts] = mgrRet[nStarts])

\* Both branches ready, the completion value being an error.
C3_Witness == BothReady /\ mgrRet[nStarts] \in BaseErrors

\* ------------------------------------------------------------------- C4

\* C4 (as stated): whenever Start returns nil, ctx has been cancelled; in
\* every other case Start returns the runtime's terminal error.
C4_Original ==
    \A r \in Runs :
        HasReturned(r) =>
            /\ ret[r] = NIL => ctxDone
            /\ ret[r] # NIL => (Produced(r) /\ ret[r] = mgrRet[r])

\* C4 (amended): exactly one of the two termination signals determines the
\* result of Start.  Whenever Start returns nil, either ctx has been cancelled
\* or manager.Start itself returned nil and Start received it; in every other
\* case Start returns the error manager.Start returned.  Start never returns
\* nil while ctx is not cancelled unless the runtime completed with nil.
C4_OneSignal ==
    \A r \in Runs :
        HasReturned(r) =>
            /\ \/ branch[r] = "ctx" /\ ctxDone /\ ret[r] = NIL
               \/ branch[r] = "chan" /\ gpc[r] = "done" /\ ret[r] = mgrRet[r]
            /\ ret[r] = NIL => (ctxDone \/ (gpc[r] = "done" /\ mgrRet[r] = NIL))
            /\ ret[r] # NIL => (branch[r] = "chan" /\ ret[r] = mgrRet[r])

\* Start returned nil although ctx is not cancelled: manager.Start returned nil.
C4_Witness ==
    \E r \in Runs : HasReturned(r) /\ ret[r] = NIL /\ ~ctxDone /\ branch[r] = "chan"

\* ------------------------------------------------------------------- C5

\* C5: on cancellation Start does not wait for the runtime: while
\* manager.Start is still running, a cancelled ctx lets Start return nil at
\* once, and that return leaves the runtime running.
C5_NoWait ==
    (callerPc = "select" /\ ctxDone /\ gpc[nStarts] = "inMgr") =>
        ENABLED (SelectCtxDone /\ ret'[nStarts] = NIL /\ gpc'[nStarts] = "inMgr")

\* Start has returned nil and manager.Start of that call has not exited.
C5_Witness ==
    \E r \in Runs :
        HasReturned(r) /\ branch[r] = "ctx" /\ ret[r] = NIL /\ gpc[r] = "inMgr"

\* ------------------------------------------------------------------- C6

\* New has returned.
NewReturned == newPc = Returned

\* The call of New's collaborator named call failed.
Failed(call) == \E i \in 1..Len(calls) : calls[i].call = call /\ calls[i].err # NIL

\* How many times New called the collaborator named call.
Attempts(call) == Cardinality({i \in 1..Len(calls) : calls[i].call = call})

\* C6 (as stated): a discovery failure prevents any controller registration
\* attempt: when discovery fails, controller.New has not been called.
C6_Original ==
    Failed("NewDiscoveryRESTMapper") => Attempts("controller.New") = 0

\* C6 (amended): New attempts discovery only after the controller registration
\* succeeded: in every execution of New in which discovery fails,
\* controller.New has been called exactly once on the manager, before
\* discovery, and has registered the controller; the failure makes New return
\* a nil Operator, so the manager with that controller is never started.
C6_DiscoveryLast ==
    Failed("NewDiscoveryRESTMapper") =>
        /\ Len(calls) = 3
        /\ calls[1] = [call |-> "NewManager", err |-> NIL]
        /\ calls[2] = [call |-> "controller.New", err |-> NIL]
        /\ calls[3].call = "NewDiscoveryRESTMapper"
        /\ Cardinality(mgr.controllers) = 1
        /\ NewReturned /\ newOp = NULL
        /\ \A r \in Runs : gpc[r] \in {"none", "spawned"}

\* Discovery failed, and a Start on the nil Operator was tried.
C6_Witness == Failed("NewDiscoveryRESTMapper") /\ nStarts > 0

\* ------------------------------------------------------------------- C7

\* The static descriptions of the failing phases.
PhaseDescriptions ==
    {"failed to create manager", "failed to create contour controller",
     "failed to create discovery REST mapper"}

\* C7: every error New returns is the cause wrapped exactly once with a short
\* static description of the failing phase; none is returned bare.
C7_WrappedOnce ==
    (NewReturned /\ newErr # NIL) =>
        /\ Len(newErr) = 2
        /\ newErr[1] \in PhaseDescriptions
        /\ Unwrap(newErr) \in BaseErrors

\* ------------------------------------------------------------------- C8

\* Every phase of New was attempted and succeeded.
AllSucceeded ==
    /\ \A c \in {"NewManager", "controller.New", "NewDiscoveryRESTMapper"} :
          Attempts(c) = 1 /\ ~Failed(c)

\* C8: New returns a non-nil Operator if and only if manager construction,
\* controller registration and discovery all succeeded; when any of them fails
\* it returns a nil Operator with a non-nil error, and no Start on that result
\* ever gets manager.Start running.
C8_NoUsableInstance ==
    NewReturned =>
        /\ newOp # NULL <=> AllSucceeded
        /\ newOp = NULL <=> newErr # NIL
        /\ newOp = NULL <=> \E c \in {"NewManager", "controller.New",
                                      "NewDiscoveryRESTMapper"} : Failed(c)
        /\ newErr # NIL => \A r \in Runs : gpc[r] \in {"none", "spawned"}

\* A bootstrap failure whose nil Operator was started all the same: the
\* goroutine died of the nil dereference.
C8_Witness == NewReturned /\ newErr # NIL /\ newOp = NULL /\ panicked

\* ------------------------------------------------------------------- C9

\* The resources the operator supports, in the order of the list.
SupportedResources == << "gatewayclasses", "gateways", "httproutes", "tlsroutes" >>

\* C9: every call of GatewayAPIResources, whatever the operator's state,
\* returns the same ordered list of exactly four triples of the gateway API
\* group and version: gatewayclasses, gateways, httproutes, tlsroutes, and
\* never udproutes or tcproutes.
C9_FixedCatalog ==
    \A i \in 1..Len(catalog) :
        LET l == catalog[i].list IN
            /\ Len(l) = 4
            /\ \A k \in 1..Len(l) :
                  /\ l[k].Group = "networking.x-k8s.io"
                  /\ l[k].Version = "v1alpha1"
                  /\ l[k].Resource = SupportedResources[k]
                  /\ l[k].Resource \notin {"udproutes", "tcproutes"}
            /\ l = catalog[1].list

\* Two calls, one before Start and one while Start is blocked in its select.
C9_Witness ==
    /\ Len(catalog) = 2
    /\ catalog[1].during = "idle"
    /\ catalog[2].during = "select"

\* ------------------------------------------------------------------ C10

\* C10: once manager.Start has returned, the goroutine delivers its completion
\* value and terminates; it is never left blocked forever on errChan.  errChan
\* belongs to one call of Start and its only receiver is that call's select,
\* so a goroutine waiting to deliver must always find its call still in the
\* select: otherwise nobody is left to receive and the send never completes.
C10_NeverLeftBlocked ==
    \A r \in Runs : gpc[r] = "sending" => (callerPc = "select" /\ nStarts = r)

\* The same as a liveness property, under FairSpec: a goroutine that offers its
\* completion value eventually delivers it and terminates.
GoroutineTerminates ==
    \A r \in Runs : (gpc[r] = "sending") ~> (gpc[r] = "done")

\* ------------------------------------------------------------------ C11

\* C11: Start stays blocked while neither completion condition has fired and
\* has no timeout of its own: a call that has returned either found ctx
\* cancelled or received the completion value manager.Start had returned, and
\* while ctx is not cancelled and no completion value is offered the select
\* cannot proceed.
C11_BlockedUntilSignal ==
    /\ \A r \in Runs :
          HasReturned(r) =>
              \/ branch[r] = "ctx" /\ ctxDone
              \/ branch[r] = "chan" /\ offers[r] = 1 /\ receipts[r] = 1
    /\ (callerPc = "select" /\ ~ctxDone /\ gpc[nStarts] # "sending") =>
          ~ENABLED (SelectCtxDone \/ SelectRecv)

\* Start is blocked in its select: ctx is not cancelled and manager.Start runs.
C11_Witness == callerPc = "select" /\ ~ctxDone /\ gpc[nStarts] = "inMgr"

\* ------------------------------------------------------------------ C12

\* C12: under weak fairness of the caller and the goroutine, a call of Start
\* on an Operator that New returned eventually returns once a completion
\* condition has fired: ctx is cancelled, or manager.Start has returned and
\* its value is offered on errChan.
C12_EventuallyReturns ==
    \A r \in Runs :
        (newOp # NULL /\ nStarts = r /\ callerPc = "select"
                      /\ (ctxDone \/ gpc[r] = "sending"))
            ~> HasReturned(r)

\* A call of Start on an Operator has returned after a completion condition
\* fired, and the caller is back from it.
C12_Witness ==
    /\ newOp # NULL /\ nStarts > 0 /\ callerPc = "idle"
    /\ HasReturned(nStarts)
    /\ (ctxDone \/ gpc[nStarts] = "done")

\* ------------------------------------------------------------------ C13

\* The phases of New: manager construction, controller registration, discovery.
BootstrapPhases == << "NewManager", "controller.New", "NewDiscoveryRESTMapper" >>

\* C13: bootstrap is fail-fast, with no retry and no swallowed error: each
\* phase is attempted at most once and in order, only the last attempted
\* phase can have failed, a failure makes New return at once with that
\* phase's error as the cause, and New returns no error only when no phase
\* failed.
C13_FailFast ==
    /\ Len(calls) <= Len(BootstrapPhases)
    /\ \A i \in 1..Len(calls) :
          /\ calls[i].call = BootstrapPhases[i]
          /\ i < Len(calls) => calls[i].err = NIL
    /\ \A i \in 1..Len(calls) :
          calls[i].err # NIL =>
              /\ NewReturned
              /\ newErr # NIL
              /\ newErr[Len(newErr)] = calls[i].err[1]
    /\ (NewReturned /\ newErr = NIL) =>
          (Len(calls) = Len(BootstrapPhases) /\ \A i \in 1..Len(calls) : calls[i].err = NIL)
    /\ ~NewReturned => newErr = NIL

\* Manager construction failed: New has returned its error, and neither the
\* controller registration nor discovery was attempted.
C13_Witness ==
    /\ NewReturned /\ Failed("NewManager") /\ Len(calls) = 1
    /\ Attempts("controller.New") = 0 /\ Attempts("NewDiscoveryRESTMapper") = 0

\* ------------------------------------------------------------------ C14

\* The supervisor's lifecycle state, read off the state of New and of the
\* caller of Start.
Lifecycle ==
    IF ~NewReturned THEN "Bootstrapping"
    ELSE IF newOp = NULL THEN "None"
    ELSE IF callerPc = "select" THEN "Running"
    ELSE IF nStarts = 0 THEN "Idle"
    ELSE IF ret[nStarts] = NIL THEN "Stopped-Clean"
    ELSE "Stopped-Error"

Stopped == {"Stopped-Clean", "Stopped-Error"}

\* C14 (as stated): Stopped-Clean and Stopped-Error are terminal: once a call
\* of Start has returned, no later operation on the same Operator, a further
\* call of Start included, moves it back to Running or to the other Stopped
\* state.
C14_Original == [][(Lifecycle \in Stopped) => (Lifecycle' = Lifecycle)]_vars

\* The lifecycle steps the code can take.
LifecycleTransitions ==
    { << "Bootstrapping", "Idle" >>, << "Bootstrapping", "None" >>,
      << "Idle", "Running" >>,
      << "Running", "Stopped-Clean" >>, << "Running", "Stopped-Error" >>,
      << "Stopped-Clean", "Running" >>, << "Stopped-Error", "Running" >> }

\* C14 (amended): each call of Start follows Idle or Stopped -> Running ->
\* Stopped-Clean or Stopped-Error, and the result of a call that has returned
\* never changes; between calls the supervisor stays in its Stopped state.
\* Start does not refuse a further call on the same Operator: only such a call
\* leaves a Stopped state, it moves the supervisor back to Running, and that
\* run may end in the other Stopped state.
C14_PerCallLifecycle ==
    [][ /\ \A r \in Runs :
              HasReturned(r) => (branch'[r] = branch[r] /\ ret'[r] = ret[r])
        /\ Lifecycle' # Lifecycle => << Lifecycle, Lifecycle' >> \in LifecycleTransitions
        /\ (Lifecycle \in Stopped /\ Lifecycle' # Lifecycle) =>
              (Lifecycle' = "Running" /\ nStarts' = nStarts + 1)
      ]_vars

\* The first call returned nil on cancellation and a second call has
\* manager.Start running again.
C14_Witness ==
    /\ newOp # NULL /\ nStarts = 2 /\ callerPc = "select"
    /\ HasReturned(1) /\ ret[1] = NIL /\ gpc[2] = "inMgr"

\* ------------------------------------------------------------------ C15

C16_SharedContext ==
    /\ [](\A r \in Runs :
             /\ mgrCtx[r] \in {"none", "ctx"}
             /\ mgrCtx[r] = "none" <=> invoked[r] = 0
             /\ (HasReturned(r) /\ branch[r] = "ctx") =>
                   (ctxDone /\ (mgrCtx[r] # "none" => Cancelled(mgrCtx[r]))))
    /\ [][ \A r \in Runs :
              (branch[r] = "none" /\ branch'[r] = "ctx") =>
                  UNCHANGED << mgr, gpc, mgrCtx, mgrRet, invoked, offers, receipts >>
         ]_vars

\* Start returned nil by the cancellation branch while manager.Start was
\* running with the same, cancelled, context.
C16_Witness ==
    \E r \in Runs :
        /\ HasReturned(r) /\ branch[r] = "ctx" /\ ret[r] = NIL
        /\ gpc[r] = "inMgr" /\ mgrCtx[r] = "ctx" /\ Cancelled(mgrCtx[r])

\* ------------------------------------------------------------------ C17

\* C17: for each call of Start the goroutine offers at most one completion
\* value on errChan and the caller receives at most one, which is the one
\* offered; no run delivers two completion values.
C17_AtMostOneValue ==
    \A r \in Runs :
        /\ offers[r] <= 1
        /\ receipts[r] <= offers[r]
        /\ offers[r] = 1 <=> Produced(r)
        /\ receipts[r] = 1 <=> gpc[r] = "done"
        /\ receipts[r] = 1 <=> branch[r] = "chan"

\* One call delivered its value, and another offered one that was not received
\* because Start had returned by the cancellation branch.
C17_Witness ==
    \E r, q \in Runs :
        /\ offers[r] = 1 /\ receipts[r] = 1
        /\ offers[q] = 1 /\ receipts[q] = 0 /\ branch[q] = "ctx"

\* ------------------------------------------------------------------ C18

\* The goroutines of Start that exist: spawned and not yet terminated.
LiveGoroutines == {r \in Runs : gpc[r] \in {"spawned", "inMgr", "sending"}}

\* Every call of Start so far has its goroutine, whatever the state of ctx, and
\* the goroutine has invoked manager.Start at most once, with ctx.
LaunchedOncePerCall ==
    /\ \A r \in Runs :
          /\ r <= nStarts <=> gpc[r] # "none"
          /\ invoked[r] <= 1
          /\ invoked[r] = 1 <=> gpc[r] \in {"inMgr", "sending", "done"}
          /\ (invoked[r] = 1 /\ calledCancelled[r]) => (mgrCtx[r] = "ctx" /\ ctxDone)
    /\ \A r \in Runs :
          (newOp # NULL /\ gpc[r] = "spawned") =>
              ENABLED (GoInvoke(r) /\ gpc'[r] = "inMgr" /\ mgrCtx'[r] = "ctx")

\* C18 (as stated): Start launches manager.Start exactly once per call and
\* without looking at ctx first, also when ctx is already cancelled, and
\* during Running exactly two execution contexts belong to the supervisor: the
\* blocked caller and the runtime's goroutine.
C18_Original ==
    /\ LaunchedOncePerCall
    /\ (newOp # NULL /\ callerPc = "select") => 1 + Cardinality(LiveGoroutines) = 2

\* C18 (amended): Start launches manager.Start exactly once per call and
\* without looking at ctx first, also when ctx is already cancelled; during
\* Running the call has exactly two execution contexts of its own, the blocked
\* caller and its goroutine, which are the only ones during the first call;
\* beside them the goroutines of earlier calls that returned by the
\* cancellation branch may still be alive.
C18_LaunchPerCall ==
    /\ LaunchedOncePerCall
    /\ (newOp # NULL /\ callerPc = "select") =>
          /\ nStarts \in LiveGoroutines
          /\ \A r \in LiveGoroutines \ {nStarts} : HasReturned(r) /\ branch[r] = "ctx"
          /\ nStarts = 1 => 1 + Cardinality(LiveGoroutines) = 2

\* Start was called with ctx already cancelled: its goroutine exists and
\* manager.Start is running with the cancelled ctx while the caller is in the
\* select.
C18_Witness ==
    /\ newOp # NULL /\ nStarts = 1 /\ callerPc = "select"
    /\ calledCancelled[1] /\ gpc[1] = "inMgr" /\ mgrCtx[1] = "ctx" /\ ctxDone

====
